---- MODULE Spec2Model ----
(***************************************************************************)
(* Model of tavern/response.py: the TResponse object (expected spec,       *)
(* validate_function, errors) and its verify operation.                    *)
(*                                                                         *)
(* Python values are tagged records [k |-> kind, v |-> payload]:           *)
(*   "null" None, "int", "str", "bool", "map" (dict), "list",              *)
(*   "cidict" (requests' case-insensitive header mapping), "url",          *)
(*   "fmt" (a string holding one {placeholder}), "ext" (a function         *)
(*   reference), "savemap", "json" (output of json.dumps), "key",          *)
(*   "absent" (the key is not in the enclosing dict).                      *)
(* A dict key or a dotted key-path is a sequence of tokens in which the    *)
(* token "." is the separator character: "user.id" is <<"user",".","id">>. *)
(***************************************************************************)
EXTENDS Integers, Sequences, FiniteSets, TLC

\* ------------------------------------------------------------------ bounds
MaxCalls == 2

\* ------------------------------------------------------------------ values
Null == [k |-> "null", v |-> 0]
Absent == [k |-> "absent", v |-> 0]
PyInt(n) == [k |-> "int", v |-> n]
PyStr(s) == [k |-> "str", v |-> s]
PyBool(b) == [k |-> "bool", v |-> b]
PyMap(f) == [k |-> "map", v |-> f]
PyList(s) == [k |-> "list", v |-> s]
CIDict(f) == [k |-> "cidict", v |-> f]
Url(q) == [k |-> "url", v |-> q]
Fmt(name) == [k |-> "fmt", v |-> name]
Ext(name) == [k |-> "ext", v |-> name]
SaveMap(f) == [k |-> "savemap", v |-> f]
KeyArg(joined_key) == [k |-> "key", v |-> joined_key]
EmptyDict == [x \in {} |-> Null]

ExtKey == <<"$ext">>

\* Insertion order of the keys of every dict of the model: iterating a dict
\* visits its keys in this order.
KeyOrder ==
    << <<"id">>, <<"name">>, <<"user", ".", "id">>, <<"user">>, <<"nope">>,
       <<"ok">>, <<"Content-Type">>, <<"content-type">>, <<"location">>,
       <<"x-missing">>, <<"t">>, <<"e">>, <<"0">>, <<"1">>, <<"2">>, ExtKey,
       <<"body">>, <<"headers">>, <<"redirect_query_params">>,
       <<"user_id">>, <<"uid">>, <<"bad">>, <<"ctype">>, <<"token">> >>

\* bool(x): Python truthiness of a value
Truthy(x) ==
    CASE x.k = "null" -> FALSE
      [] x.k = "map" -> DOMAIN x.v # {}
      [] x.k = "cidict" -> DOMAIN x.v # {}
      [] x.k = "savemap" -> DOMAIN x.v # {}
      [] x.k = "list" -> Len(x.v) > 0
      [] x.k = "int" -> x.v # 0
      [] x.k = "bool" -> x.v
      [] x.k = "str" -> x.v # ""
      [] OTHER -> TRUE

\* isinstance(x, dict)
IsDict(x) == x.k = "map"

\* The keys of a dict in iteration order
keys_of(d) == SelectSeq(KeyOrder, LAMBDA key : key \in DOMAIN d.v)

\* d without the key `key`
Without(d, key) == [x \in DOMAIN d \ {key} |-> d[x]]

\* x == y of Python: bool is a subclass of int (True == 1), dicts compare
\* by content, lists element-wise.
Num(x) == IF x.k = "bool" THEN (IF x.v THEN 1 ELSE 0) ELSE x.v

RECURSIVE PyEq(_, _)
PyEq(x, y) ==
    CASE x.k \in {"int", "bool"} /\ y.k \in {"int", "bool"} -> Num(x) = Num(y)
      [] x.k = "map" /\ y.k = "map" ->
            /\ DOMAIN x.v = DOMAIN y.v
            /\ \A key \in DOMAIN x.v : PyEq(x.v[key], y.v[key])
      [] x.k = "list" /\ y.k = "list" ->
            /\ Len(x.v) = Len(y.v)
            /\ \A i \in 1..Len(x.v) : PyEq(x.v[i], y.v[i])
      [] x.k = y.k /\ x.k \in {"str", "null"} -> x.v = y.v
      [] OTHER -> FALSE

\* str.split("."): the segments between the separator tokens
RECURSIVE split(_)
split(joined_key) ==
    IF \A i \in 1..Len(joined_key) : joined_key[i] # "."
    THEN << joined_key >>
    ELSE LET i == CHOOSE i \in 1..Len(joined_key) :
                      /\ joined_key[i] = "."
                      /\ \A j \in 1..(i - 1) : joined_key[j] # "."
         IN  << SubSeq(joined_key, 1, i - 1) >>
                 \o split(SubSeq(joined_key, i + 1, Len(joined_key)))

\* str(idx) for the indices of a list
str(idx) == << CASE idx = 0 -> "0" [] idx = 1 -> "1" [] idx = 2 -> "2"
                 [] OTHER -> "9" >>

\* yield_keyvals: the (split_key, joined_key, expected_val) triples of a
\* block, in iteration order
yield_keyvals(block) ==
    IF IsDict(block)
    THEN LET keys == keys_of(block)
         IN  [i \in 1..Len(keys) |->
                 [split_key |-> split(keys[i]), joined_key |-> keys[i],
                  expected_val |-> block.v[keys[i]]]]
    ELSE [i \in 1..Len(block.v) |->
             [split_key |-> << str(i - 1) >>, joined_key |-> str(i - 1),
              expected_val |-> block.v[i]]]

\* ------------------------------------------------- util.dict_util (interface)
\* Lower-casing of a header name (case-insensitive header lookup)
Lower(key) ==
    [i \in 1..Len(key) |->
        CASE key[i] = "Content-Type" -> "content-type"
          [] key[i] = "Location" -> "location"
          [] OTHER -> key[i]]

IsIndex(key) == key \in { <<"0">>, <<"1">>, <<"2">> }
ToInt(key) == CASE key = <<"0">> -> 0 [] key = <<"1">> -> 1 [] OTHER -> 2

Found(val) == [ok |-> TRUE, val |-> val, err |-> "none"]
NotFound(err) == [ok |-> FALSE, val |-> Null, err |-> err]

\* KeyPath Resolver: walks mappings by key and sequences by integer index;
\* KeyError when a segment is not in a mapping, IndexError when a sequence
\* index is out of range or not a number.
RECURSIVE recurse_access_key(_, _)
recurse_access_key(current_val, keys) ==
    IF keys = << >> THEN Found(current_val)
    ELSE LET key == Head(keys)
             rest == Tail(keys)
         IN  CASE current_val.k = "map" ->
                    IF key \in DOMAIN current_val.v
                    THEN recurse_access_key(current_val.v[key], rest)
                    ELSE NotFound("KeyError")
               [] current_val.k = "cidict" ->
                    IF Lower(key) \in DOMAIN current_val.v
                    THEN recurse_access_key(current_val.v[Lower(key)], rest)
                    ELSE NotFound("KeyError")
               [] current_val.k = "list" ->
                    IF IsIndex(key) /\ ToInt(key) < Len(current_val.v)
                    THEN recurse_access_key(current_val.v[ToInt(key) + 1], rest)
                    ELSE NotFound("IndexError")
               [] OTHER -> NotFound("KeyError")

\* Templating collaborator: keeps the shape of the structure and replaces
\* placeholder scalars by the value of their variable.
RECURSIVE format_keys(_, _)
format_keys(val, variables) ==
    CASE val.k = "map" ->
            PyMap([key \in DOMAIN val.v |-> format_keys(val.v[key], variables)])
      [] val.k = "list" ->
            PyList([i \in 1..Len(val.v) |-> format_keys(val.v[i], variables)])
      [] val.k = "fmt" -> PyStr(variables[val.v])
      [] OTHER -> val

\* deep_dict_merge(defaults, expected): the defaults lie beneath the values
\* the caller supplied
deep_dict_merge(defaults, expected) ==
    [f \in DOMAIN expected |->
        IF expected[f] = Absent /\ f \in DOMAIN defaults
        THEN defaults[f] ELSE expected[f]]

\* ------------------------------------------------ extension functions
\* What each function reference of the model does when it is called with a
\* response: it raises, or it returns `ret`.
ExtBehaviour(name) ==
    CASE name = "validate_ok" -> [raises |-> FALSE, ret |-> Null]
      [] name = "validate_raise" -> [raises |-> TRUE, ret |-> Null]
      [] name = "save_dict" ->
            [raises |-> FALSE,
             ret |-> PyMap((<<"token">> :> PyStr("from_ext"))
                           @@ (<<"extra">> :> PyInt(1)))]
      [] name = "save_none" -> [raises |-> FALSE, ret |-> Null]
      [] name = "save_list" ->
            [raises |-> FALSE, ret |-> PyList(<< PyStr("x") >>)]
      [] OTHER -> [raises |-> TRUE, ret |-> Null]

\* get_wrapped_response_function(ext): the callable and its `func`
get_wrapped_response_function(ext) == [func |-> ext.v]

\* ------------------------------------------------------------ TResponse
VARIABLES name, expected, validate_function, test_block_config, response,
          status_code, errors, ncalls, last, prev, expected_at_init

vars == << name, expected, validate_function, test_block_config, response,
           status_code, errors, ncalls, last, prev, expected_at_init >>

defaults == [status_code |-> PyInt(200)]

\* Number of arguments a message template takes (its %s fields)
Arity(msg) ==
    CASE msg = "Wanted to save '%s' from '%s', but it did not exist in the response" -> 2
      [] msg = "Status code was %s, expected %s:\n%s" -> 3
      [] msg = "Status code was %s, expected %s" -> 2
      [] msg = "Error calling validate function '%s':\n%s" -> 2
      [] msg = "Wanted to save %s, but there was no redirect url in response" -> 1
      [] msg = "Error calling save function '%s':\n%s" -> 2
      [] msg = "Unexpected return value '%s' from $ext save function" -> 1
      [] msg = "expected %s in the %s, but there was no response body" -> 2
      [] msg = "Key not present: %s" -> 1
      [] msg = "Value mismatch: '%s' vs '%s'" -> 2
      [] msg = "No %s in response (wanted to save %s)" -> 2
      [] OTHER -> 2

\* The running verify call: c.expected and c.errors are self.expected and
\* self.errors, c.saved is the local `saved`, c.exc the exception that is
\* propagating ("none" while the call runs normally).  c.steps (the steps
\* entered so far), c.src (which step and key appended each error) and
\* c.invoked (the extension functions called) record the history of the call.
Enter(c, step) == [c EXCEPT !.steps = Append(@, step)]

\* _adderr that assigns the message instead of appending it
_adderr_Assign(c, msg, args, at) ==
    IF Arity(msg) # Len(args)
    THEN [c EXCEPT !.exc = "TypeError", !.adderr_calls = @ + 1]
    ELSE [c EXCEPT !.errors = << [msg |-> msg, args |-> args] >>,
                   !.src = @ \o << at >>,
                   !.adderr_calls = @ + 1]

\* _adderr: msg % args appended to self.errors; msg % args raises TypeError
\* when the template takes another number of arguments.  c.adderr_calls
\* counts the calls of _adderr.
_adderr(c, msg, args, at) ==
    IF Arity(msg) # Len(args)
    THEN [c EXCEPT !.exc = "TypeError", !.adderr_calls = @ + 1]
    ELSE [c EXCEPT !.errors = @ \o << [msg |-> msg, args |-> args] >>,
                   !.src = @ \o << at >>,
                   !.adderr_calls = @ + 1]

\* json.dumps(body)
dumps(body) == [k |-> "json", v |-> body]

\* _indent_err_text(err)
_indent_err_text(err) ==
    IF err = dumps(Null) THEN [k |-> "indented", v |-> PyStr("<No body>")]
    ELSE [k |-> "indented", v |-> err]

\* traceback.format_exc() for the exception raised by function `func`
format_exc(func) == [k |-> "traceback", v |-> func]

\* response.json(), ValueError caught: body = None
json(resp) == IF resp.body.k = "notjson" THEN Null ELSE resp.body

\* StatusStep that dumps the body for every status code that differs
StatusStep_AlwaysDump(c, resp) ==
    IF c.exc # "none" THEN c
    ELSE LET d == Enter(c, <<"status_code", "">>)
         IN  IF resp.status_code # d.expected.status_code.v
             THEN _adderr(d, "Status code was %s, expected %s:\n%s",
                          << PyInt(resp.status_code), d.expected.status_code,
                             _indent_err_text(dumps(json(resp))) >>,
                          [step |-> "status_code", section |-> "", key |-> << >>])
             ELSE d

\* verify, lines 95-103: the status code check
StatusStep(c, resp) ==
    IF c.exc # "none" THEN c
    ELSE LET d == Enter(c, <<"status_code", "">>)
         IN  IF resp.status_code # d.expected.status_code.v
             THEN IF 400 <= resp.status_code /\ resp.status_code < 500
                  THEN _adderr(d, "Status code was %s, expected %s:\n%s",
                               << PyInt(resp.status_code), d.expected.status_code,
                                  _indent_err_text(dumps(json(resp))) >>,
                               [step |-> "status_code", section |-> "", key |-> << >>])
                  ELSE _adderr(d, "Status code was %s, expected %s",
                               << PyInt(resp.status_code), d.expected.status_code >>,
                               [step |-> "status_code", section |-> "", key |-> << >>])
             ELSE d

\* ValidatorStep without the except clause: the exception of the validator
\* leaves verify
ValidatorStep_Propagate(c, resp) ==
    IF c.exc # "none" THEN c
    ELSE LET d == Enter(c, <<"validate_function", "">>)
         IN  IF validate_function # Null
             THEN LET e == [d EXCEPT !.invoked = Append(@, validate_function.func)]
                  IN  IF ExtBehaviour(validate_function.func).raises
                      THEN [e EXCEPT !.exc = "Exception"]
                      ELSE e
             ELSE d

\* ValidatorStep that looks "$ext" up in the expected body at every call
ValidatorStep_Lookup(c, resp) ==
    IF c.exc # "none" THEN c
    ELSE LET d == Enter(c, <<"validate_function", "">>)
         IN  IF /\ validate_function # Null
                /\ IsDict(c.expected.body)
                /\ ExtKey \in DOMAIN c.expected.body.v
             THEN LET e == [d EXCEPT !.invoked = Append(@, validate_function.func)]
                  IN  IF ExtBehaviour(validate_function.func).raises
                      THEN _adderr(e, "Error calling validate function '%s':\n%s",
                                   << PyStr(validate_function.func),
                                      _indent_err_text(format_exc(validate_function.func)) >>,
                                   [step |-> "validate_function", section |-> "",
                                    key |-> << >>])
                      ELSE e
             ELSE d

\* verify, lines 105-112: the body validator extension
ValidatorStep(c, resp) ==
    IF c.exc # "none" THEN c
    ELSE LET d == Enter(c, <<"validate_function", "">>)
         IN  IF validate_function # Null
             THEN LET e == [d EXCEPT !.invoked = Append(@, validate_function.func)]
                  IN  IF ExtBehaviour(validate_function.func).raises
                      THEN _adderr(e, "Error calling validate function '%s':\n%s",
                                   << PyStr(validate_function.func),
                                      _indent_err_text(format_exc(validate_function.func)) >>,
                                   [step |-> "validate_function", section |-> "",
                                    key |-> << >>])
                      ELSE e
             ELSE d

\* urlparse(redirect_url).query: the (name, value) pairs of the query string
query(redirect_url) == redirect_url.v

\* parse_qs(qp): every name with its non-blank values, in order of appearance
parse_qs(qp) ==
    LET kept == SelectSeq(qp, LAMBDA pair : pair[2] # "")
    IN  [n \in { kept[i][1] : i \in 1..Len(kept) } |->
            LET mine == SelectSeq(kept, LAMBDA pair : pair[1] = n)
            IN  [i \in 1..Len(mine) |-> mine[i][2]]]

\* "k" in d.get("save", {})
InSave(espec, key) ==
    /\ espec.save # Absent
    /\ key \in DOMAIN espec.save.v

\* RedirectStep that does not report the missing redirect url
RedirectStep_Silent(c, resp) ==
    IF c.exc # "none" THEN c
    ELSE LET d == Enter(c, <<"redirect", "">>)
         IN  IF <<"location">> \notin DOMAIN resp.headers.v
             THEN [d EXCEPT !.qp_as_dict = PyMap(EmptyDict)]
             ELSE LET parsed == parse_qs(query(resp.headers.v[<<"location">>]))
                  IN  [d EXCEPT !.qp_as_dict =
                          PyMap([i \in DOMAIN parsed |-> PyStr(parsed[i][1])])]

\* verify, lines 117-127: the redirect query parameters
RedirectStep(c, resp) ==
    IF c.exc # "none" THEN c
    ELSE LET d == Enter(c, <<"redirect", "">>)
         IN  IF <<"location">> \notin DOMAIN resp.headers.v
             THEN LET e == IF InSave(d.expected, <<"redirect_query_params">>)
                           THEN _adderr(d, "Wanted to save %s, but there was no redirect url in response",
                                        << d.expected.save.v[<<"redirect_query_params">>] >>,
                                        [step |-> "redirect", section |-> "",
                                         key |-> << >>])
                           ELSE d
                  IN  [e EXCEPT !.qp_as_dict = PyMap(EmptyDict)]
             ELSE LET parsed == parse_qs(query(resp.headers.v[<<"location">>]))
                  IN  [d EXCEPT !.qp_as_dict =
                          PyMap([i \in DOMAIN parsed |-> PyStr(parsed[i][1])])]

\* SaveOne that catches KeyError only: an IndexError leaves _save_value
SaveOne_KeyErrorOnly(acc, key, to_check, save_as, joined_key) ==
    LET r == recurse_access_key(to_check, split(joined_key))
    IN  IF r.ok
        THEN [acc EXCEPT !.saved = (save_as :> r.val) @@ @]
        ELSE IF r.err = "KeyError"
             THEN [acc EXCEPT !.c =
                     _adderr(@, "Wanted to save '%s' from '%s', but it did not exist in the response",
                             << KeyArg(joined_key), PyStr(key) >>,
                             [step |-> "save", section |-> key, key |-> save_as])]
             ELSE [acc EXCEPT !.c.exc = r.err]

\* SaveOne that saves None under a save-name whose key-path does not resolve
SaveOne_NoneOnFailure(acc, key, to_check, save_as, joined_key) ==
    LET r == recurse_access_key(to_check, split(joined_key))
    IN  IF r.ok
        THEN [acc EXCEPT !.saved = (save_as :> r.val) @@ @]
        ELSE [acc EXCEPT !.saved = (save_as :> Null) @@ @,
                         !.c =
                 _adderr(@, "Wanted to save '%s' from '%s', but it did not exist in the response",
                         << KeyArg(joined_key), PyStr(key) >>,
                         [step |-> "save", section |-> key, key |-> save_as])]

\* _save_value, lines 237-242: one save-name of the loop.  acc.c is the
\* running call, acc.saved the local `saved` of _save_value.
SaveOne(acc, key, to_check, save_as, joined_key) ==
    LET r == recurse_access_key(to_check, split(joined_key))
    IN  IF r.ok
        THEN [acc EXCEPT !.saved = (save_as :> r.val) @@ @]
        ELSE [acc EXCEPT !.c =
                 _adderr(@, "Wanted to save '%s' from '%s', but it did not exist in the response",
                         << KeyArg(joined_key), PyStr(key) >>,
                         [step |-> "save", section |-> key, key |-> save_as])]

\* _save_value, line 236: the loop over expected.items()
RECURSIVE SaveLoop(_, _, _, _, _)
SaveLoop(acc, key, to_check, expected_save, names) ==
    IF names = << >> \/ acc.c.exc # "none" THEN acc
    ELSE SaveLoop(SaveOne(acc, key, to_check, Head(names),
                          expected_save.v[Head(names)]),
                  key, to_check, expected_save, Tail(names))

\* _save_value(key, to_check): the running call and the returned mapping
_save_value(c, key, to_check) ==
    IF ~InSave(c.expected, << key >>)
    THEN [c |-> c, saved |-> EmptyDict]
    ELSE LET expected_save == c.expected.save.v[<< key >>]
         IN  IF ~Truthy(to_check)
             THEN [c |-> _adderr(c, "No %s in response (wanted to save %s)",
                                 << PyStr(key), expected_save >>,
                                 [step |-> "save", section |-> key, key |-> << >>]),
                   saved |-> EmptyDict]
             ELSE SaveLoop([c |-> c, saved |-> EmptyDict], key, to_check,
                           expected_save, keys_of(expected_save))

\* SaveStep that keeps the value already saved under a save-name
SaveStep_EarlierWins(c, key, to_check) ==
    IF c.exc # "none" THEN c
    ELSE LET r == _save_value(Enter(c, <<"save", key>>), key, to_check)
         IN  IF r.c.exc # "none" THEN r.c
             ELSE [r.c EXCEPT !.saved = @ @@ r.saved,
                              !.returned = (key :> r.saved) @@ @]

\* verify, lines 129-131: saved.update(self._save_value(key, to_check))
SaveStep(c, key, to_check) ==
    IF c.exc # "none" THEN c
    ELSE LET r == _save_value(Enter(c, <<"save", key>>), key, to_check)
         IN  IF r.c.exc # "none" THEN r.c
             ELSE [r.c EXCEPT !.saved = r.saved @@ @,
                              !.returned = (key :> r.saved) @@ @]

\* isinstance(obj, classinfo): its value, or the TypeError Python raises when
\* classinfo is not a type (None is not a type)
isinstance(obj, classinfo) ==
    CASE classinfo = "dict" -> [exc |-> "none", val |-> IsDict(obj)]
      [] OTHER -> [exc |-> "TypeError", val |-> FALSE]

\* verify, lines 146-149: what is done with the value the save function
\* returned
SaveExtReturn(c, to_save) ==
    IF isinstance(to_save, "dict").val
    THEN [c EXCEPT !.saved = to_save.v @@ @]
    ELSE LET t == isinstance(to_save, "None")
         IN  IF t.exc # "none" THEN [c EXCEPT !.exc = t.exc]
             ELSE IF ~t.val
                  THEN _adderr(c, "Unexpected return value '%s' from $ext save function",
                               << >>,
                               [step |-> "save_ext", section |-> "", key |-> << >>])
                  ELSE c

\* verify, lines 138-144: the call of the save function
SaveExtCall(c, wrapped) ==
    LET e == [c EXCEPT !.invoked = Append(@, wrapped.func)]
    IN  IF ExtBehaviour(wrapped.func).raises
        THEN _adderr(e, "Error calling save function '%s':\n%s",
                     << PyStr(wrapped.func),
                        _indent_err_text(format_exc(wrapped.func)) >>,
                     [step |-> "save_ext", section |-> "", key |-> << >>])
        ELSE SaveExtReturn(e, ExtBehaviour(wrapped.func).ret)

\* verify, lines 133-149: the save extension
SaveExtStep(c, resp) ==
    IF c.exc # "none" THEN c
    ELSE LET d == Enter(c, <<"save_ext", "">>)
         IN  IF ~InSave(d.expected, ExtKey) THEN d
             ELSE SaveExtCall(d, get_wrapped_response_function(
                                     d.expected.save.v[ExtKey]))

\* CheckVal without the test of expected_val against None
CheckVal_NoSentinel(c, blockname, joined_key, actual_val, expected_val) ==
    IF ~PyEq(actual_val, expected_val)
    THEN _adderr(c, "Value mismatch: '%s' vs '%s'",
                 << actual_val, expected_val >>,
                 [step |-> "validate", section |-> blockname,
                  key |-> joined_key])
    ELSE c

\* CheckVal that reports a mismatch for every expected value that is not null
CheckVal_NoCompare(c, blockname, joined_key, actual_val, expected_val) ==
    IF expected_val # Null
    THEN _adderr(c, "Value mismatch: '%s' vs '%s'",
                 << actual_val, expected_val >>,
                 [step |-> "validate", section |-> blockname,
                  key |-> joined_key])
    ELSE c

\* _validate_block, lines 203-209: the comparison of one resolved value
CheckVal(c, blockname, joined_key, actual_val, expected_val) ==
    IF ~PyEq(actual_val, expected_val)
    THEN IF expected_val # Null
         THEN _adderr(c, "Value mismatch: '%s' vs '%s'",
                      << actual_val, expected_val >>,
                      [step |-> "validate", section |-> blockname,
                       key |-> joined_key])
         ELSE c
    ELSE c

\* _validate_block, lines 195-209: one key-path of the loop
ValidateOne(c, blockname, block, kv) ==
    LET r == recurse_access_key(block, kv.split_key)
    IN  IF ~r.ok
        THEN IF r.err = "KeyError"
             THEN _adderr(c, "Key not present: %s", << KeyArg(kv.joined_key) >>,
                          [step |-> "validate", section |-> blockname,
                           key |-> kv.joined_key])
             ELSE [c EXCEPT !.exc = r.err]
        ELSE CheckVal(c, blockname, kv.joined_key, r.val, kv.expected_val)

\* _validate_block, line 194: the loop over yield_keyvals(expected_block)
RECURSIVE ValidateLoop(_, _, _, _)
ValidateLoop(c, blockname, block, kvs) ==
    IF kvs = << >> \/ c.exc # "none" THEN c
    ELSE ValidateLoop(ValidateOne(c, blockname, block, Head(kvs)),
                      blockname, block, Tail(kvs))

\* PopSpecial that leaves the special key in the expected block
PopSpecial_Keep(c, blockname) == c

\* _validate_block, lines 167-182: self.expected[blockname] or {}, with the
\* special key popped from the dict itself
PopSpecial(c, blockname) ==
    LET e0 == c.expected[blockname]
    IN  IF e0 # Absent /\ Truthy(e0)
        THEN IF IsDict(e0)
             THEN [c EXCEPT !.expected[blockname] = PyMap(Without(e0.v, ExtKey))]
             ELSE c
        ELSE c

ExpectedBlock(c, blockname) ==
    LET e0 == c.expected[blockname]
    IN  IF e0 # Absent /\ Truthy(e0) THEN e0 ELSE PyMap(EmptyDict)

\* _validate_block without the test for a missing block: the key-paths are
\* looked up in None
_validate_block_NoNoneTest(c, blockname, block) ==
    IF c.exc # "none" THEN c
    ELSE LET d == PopSpecial(Enter(c, <<"validate", blockname>>), blockname)
             expected_block == ExpectedBlock(d, blockname)
         IN  IF Truthy(expected_block)
             THEN ValidateLoop(d, blockname, block,
                               yield_keyvals(format_keys(expected_block,
                                   test_block_config.variables)))
             ELSE d

\* _validate_block(blockname, block)
_validate_block(c, blockname, block) ==
    IF c.exc # "none" THEN c
    ELSE LET d == PopSpecial(Enter(c, <<"validate", blockname>>), blockname)
             expected_block == ExpectedBlock(d, blockname)
         IN  IF Truthy(expected_block)
             THEN IF block = Null
                  THEN _adderr(d, "expected %s in the %s, but there was no response body",
                               << d.expected[blockname], PyStr(blockname) >>,
                               [step |-> "validate", section |-> blockname,
                                key |-> << >>])
                  ELSE ValidateLoop(d, blockname, block,
                                    yield_keyvals(format_keys(expected_block,
                                        test_block_config.variables)))
             ELSE d

\* _str_errors: "- " + "\n- ".join(self.errors), as the pieces of the string
\* in order: every message with the text that precedes it
_str_errors(errs) ==
    IF errs = << >>
    THEN << [prefix |-> "- ", text |-> Absent] >>
    ELSE [i \in 1..Len(errs) |->
             [prefix |-> IF i = 1 THEN "- " ELSE "\n- ", text |-> errs[i]]]

\* "Test '{:s}' failed:\n{:s}".format(name, report)
FailMessage(test_name, report) ==
    [fmt |-> "Test '{:s}' failed:\n{:s}", args |-> << test_name, report >>]

\* verify, lines 155-158: raise TestFailError when self.errors is not empty,
\* return saved otherwise
Finish(c) ==
    IF c.exc # "none" THEN c
    ELSE IF c.errors # << >>
         THEN [c EXCEPT !.exc = "TestFailError",
                        !.message = FailMessage(name, _str_errors(c.errors))]
         ELSE [c EXCEPT !.ret = PyMap(c.saved)]

\* verify that validates the three blocks before it saves
verify_ValidateFirst(c, resp) ==
    LET body == json(resp)
        c1 == StatusStep(c, resp)
        c2 == ValidatorStep(c1, resp)
        c3 == RedirectStep(c2, resp)
        c4 == _validate_block(c3, "body", body)
        c5 == _validate_block(c4, "headers", resp.headers)
        c6 == _validate_block(c5, "redirect_query_params", c5.qp_as_dict)
        c7 == SaveStep(c6, "body", body)
        c8 == SaveStep(c7, "headers", resp.headers)
        c9 == SaveStep(c8, "redirect_query_params", c8.qp_as_dict)
        c10 == SaveExtStep(c9, resp)
    IN  Finish(c10)

\* verify(response)
verify(c, resp) ==
    LET body == json(resp)
        c1 == StatusStep(c, resp)
        c2 == ValidatorStep(c1, resp)
        c3 == RedirectStep(c2, resp)
        c4 == SaveStep(c3, "body", body)
        c5 == SaveStep(c4, "headers", resp.headers)
        c6 == SaveStep(c5, "redirect_query_params", c5.qp_as_dict)
        c7 == SaveExtStep(c6, resp)
        c8 == _validate_block(c7, "body", body)
        c9 == _validate_block(c8, "headers", resp.headers)
        c10 == _validate_block(c9, "redirect_query_params", c9.qp_as_dict)
    IN  Finish(c10)

\* ------------------------------------------------------------- inputs
\* d1 ++ d2 builds dict literals; K(s) is the key made of the one token s
K(s) == << s >>
NotJson == [k |-> "notjson", v |-> 0]

BodyAlice ==
    PyMap((K("id") :> PyInt(7)) @@ (K("name") :> PyStr("alice"))
          @@ (K("user") :> PyMap(K("id") :> PyInt(42)))
          @@ (K("ok") :> PyBool(TRUE)))
BodyBob == PyMap((K("id") :> Null) @@ (K("name") :> PyStr("bob")))
BodyList == PyList(<< PyStr("alice"), PyInt(7) >>)
BodyEmpty == PyMap(EmptyDict)

HeadersJson == CIDict(K("content-type") :> PyStr("json"))
HeadersRedirect ==
    CIDict((K("content-type") :> PyStr("json"))
           @@ (K("location") :>
                 Url(<< << K("t"), "x" >>, << K("e"), "" >>, << K("t"), "y" >> >>)))
HeadersNone == CIDict(EmptyDict)

Resp(sc, body, headers) == [status_code |-> sc, body |-> body, headers |-> headers]

\* The responses verify is called with
Responses ==
    { Resp(200, BodyAlice, HeadersRedirect),
      Resp(404, BodyAlice, HeadersRedirect),
      Resp(503, BodyAlice, HeadersRedirect),
      Resp(200, BodyBob, HeadersRedirect),
      Resp(200, BodyList, HeadersRedirect),
      Resp(200, BodyEmpty, HeadersRedirect),
      Resp(200, NotJson, HeadersRedirect),
      Resp(200, BodyAlice, HeadersJson),
      Resp(200, BodyAlice, HeadersNone),
      Resp(404, NotJson, HeadersJson) }

ExpectedStatus == { Absent, PyInt(404) }

ExpectedBodies ==
    { Absent, Null,
      PyMap((K("id") :> Null) @@ (K("name") :> PyStr("alice"))),
      PyMap((K("name") :> PyStr("bob")) @@ (K("nope") :> PyInt(1))
            @@ (<<"user", ".", "id">> :> PyInt(42))),
      PyMap(ExtKey :> Ext("validate_ok")),
      PyMap((ExtKey :> Ext("validate_raise")) @@ (K("ok") :> PyInt(1))
            @@ (K("name") :> Fmt("who"))),
      PyList(<< PyStr("alice"), Null, PyInt(1) >>),
      PyMap((K("nope") :> Null) @@ (K("user") :> PyMap(K("id") :> PyInt(42)))) }

ExpectedHeaders ==
    { Absent,
      PyMap(K("Content-Type") :> PyStr("json")),
      PyMap((K("x-missing") :> Null) @@ (K("content-type") :> PyStr("xml"))) }

ExpectedParams ==
    { Absent, PyMap(EmptyDict),
      PyMap((K("t") :> PyStr("x")) @@ (K("e") :> Null)) }

ExpectedSaves ==
    { Absent,
      PyMap(K("body") :> SaveMap(K("user_id") :> K("id"))),
      PyMap(K("body") :> SaveMap((K("uid") :> <<"user", ".", "id">>)
                                 @@ (K("bad") :> K("nope"))
                                 @@ (K("token") :> K("name")))),
      PyMap(K("body") :> SaveMap((K("uid") :> K("0")) @@ (K("bad") :> K("2")))),
      PyMap(K("headers") :> SaveMap((K("ctype") :> K("Content-Type"))
                                    @@ (K("token") :> K("x-missing")))),
      PyMap(K("redirect_query_params") :> SaveMap(K("token") :> K("t"))),
      PyMap(ExtKey :> Ext("save_dict")),
      PyMap(ExtKey :> Ext("save_none")),
      PyMap(ExtKey :> Ext("save_list")),
      PyMap(ExtKey :> Ext("save_raise")),
      PyMap((K("body") :> SaveMap(K("token") :> K("id")))
            @@ (K("headers") :> SaveMap(K("token") :> K("content-type")))
            @@ (K("redirect_query_params") :> SaveMap(K("token") :> K("t")))
            @@ (ExtKey :> Ext("save_dict"))),
      PyMap((K("body") :> SaveMap((K("token") :> K("id")) @@ (K("uid") :> K("name"))))
            @@ (K("headers") :> SaveMap((K("token") :> K("content-type"))
                                        @@ (K("uid") :> K("content-type"))))
            @@ (K("redirect_query_params") :> SaveMap(K("token") :> K("t")))) }

Given(e) ==
    Cardinality({ f \in DOMAIN e : e[f] # Absent })

\* Sections that are also combined with a second section
Combined(e) ==
    /\ e.body = Absent \/ (e.body # Null /\ IsDict(e.body) /\ K("name") \in DOMAIN e.body.v)
    /\ e.save = Absent \/ K("headers") \notin DOMAIN e.save.v
    /\ e.headers = Absent \/ K("x-missing") \in DOMAIN e.headers.v

\* The expected specs a TResponse is constructed with: one section, or two
\* sections of the combined ones
ExpectedSpecs ==
    { e \in [status_code : ExpectedStatus, body : ExpectedBodies,
             headers : ExpectedHeaders, redirect_query_params : ExpectedParams,
             save : ExpectedSaves] :
        \/ Given(e) <= 1
        \/ Given(e) = 2 /\ Combined(e) }

\* ------------------------------------------------------- the object
\* body = expected.get("body") or {};  "$ext" in body
HasExt(body0) ==
    LET body == IF body0 # Absent /\ Truthy(body0) THEN body0 ELSE PyMap(EmptyDict)
    IN  IF IsDict(body) THEN ExtKey \in DOMAIN body.v
        ELSE \E i \in 1..Len(body.v) : body.v[i] = PyStr("$ext")

NoCall ==
    [n |-> 0, response |-> Null, expected_before |-> Null,
     errors_before |-> << >>, errors |-> << >>, src |-> << >>, steps |-> << >>,
     saved |-> EmptyDict, returned |-> EmptyDict, invoked |-> << >>,
     exc |-> "none", ret |-> Absent, message |-> Absent, qp_as_dict |-> Absent,
     adderr_calls |-> 0]

\* __init__(name, expected, test_block_config)
Init ==
    \E e \in ExpectedSpecs :
        /\ name = "test"
        /\ validate_function =
               IF HasExt(e.body)
               THEN get_wrapped_response_function(e.body.v[ExtKey])
               ELSE Null
        /\ expected = deep_dict_merge(defaults, e)
        /\ expected_at_init = deep_dict_merge(defaults, e)
        /\ response = Null
        /\ status_code = Absent
        /\ test_block_config = [variables |-> [who |-> "alice"]]
        /\ errors = << >>
        /\ ncalls = 0
        /\ last = NoCall
        /\ prev = NoCall

\* verify(response), called by the test runner
Verify(resp) ==
    /\ ncalls < MaxCalls
    /\ LET c0 == [NoCall EXCEPT !.n = ncalls + 1, !.response = resp,
                                !.expected_before = expected,
                                !.errors_before = errors]
                 @@ [expected |-> expected]
       IN \E c \in { verify([c0 EXCEPT !.errors = errors], resp) } :
           /\ expected' = c.expected
           /\ errors' = c.errors
           /\ last' = [f \in DOMAIN NoCall |-> c[f]]
    /\ prev' = last
    /\ response' = resp
    /\ status_code' = PyInt(resp.status_code)
    /\ ncalls' = ncalls + 1
    /\ UNCHANGED << name, validate_function, test_block_config, expected_at_init >>

Next == \E resp \in Responses : Verify(resp)

Spec == Init /\ [][Next]_vars

\* ===================================================== properties
Called == last.n > 0

\* The steps of verify, in program order
AllSteps ==
    << <<"status_code", "">>, <<"validate_function", "">>, <<"redirect", "">>,
       <<"save", "body">>, <<"save", "headers">>,
       <<"save", "redirect_query_params">>, <<"save_ext", "">>,
       <<"validate", "body">>, <<"validate", "headers">>,
       <<"validate", "redirect_query_params">> >>

Sections == { "body", "headers", "redirect_query_params" }

Entered(call, step) == \E i \in 1..Len(call.steps) : call.steps[i] = step

\* The errors appended to self.errors by the call
NewErrors(call) ==
    SubSeq(call.errors, Len(call.errors_before) + 1, Len(call.errors))

\* The section of the response the call worked on
Section(call, s) ==
    CASE s = "body" -> json(call.response)
      [] s = "headers" -> call.response.headers
      [] OTHER -> call.qp_as_dict

\* The (split_key, joined_key, expected_val) triples _validate_block went
\* through for section s: the expected block after the call of the step
Triples(call, s) ==
    LET eb == ExpectedBlock([expected |-> call.expected_before], s)
        popped == IF IsDict(eb) THEN PyMap(Without(eb.v, ExtKey)) ELSE eb
    IN  IF Truthy(popped)
        THEN yield_keyvals(format_keys(popped, test_block_config.variables))
        ELSE << >>

\* Number of errors of the call that step `step` appended for key `key` of
\* section `s`
ErrorsAt(call, step, s, key) ==
    Cardinality({ i \in 1..Len(call.src) :
                    call.src[i] = [step |-> step, section |-> s, key |-> key] })

\* Number of errors of the call that are the message msg % args
ErrorsSaying(call, msg, args) ==
    Cardinality({ i \in 1..Len(NewErrors(call)) :
                    NewErrors(call)[i] = [msg |-> msg, args |-> args] })

\* Number of errors of the call made from the template msg
ErrorsOf(call, msg) ==
    Cardinality({ i \in 1..Len(NewErrors(call)) : NewErrors(call)[i].msg = msg })

\* A triple of section s that _validate_block compared with the response
Compared(call, s) ==
    IF Entered(call, <<"validate", s>>) /\ Section(call, s) # Null
    THEN { Triples(call, s)[i] : i \in 1..Len(Triples(call, s)) }
    ELSE {}

Resolves(call, s, kv) == recurse_access_key(Section(call, s), kv.split_key).ok
Actual(call, s, kv) == recurse_access_key(Section(call, s), kv.split_key).val

\* C1: every verify call runs all ten steps, and the only exception that
\* leaves it is the aggregate TestFailError raised at the end.
C1_AllStepsThenOneFailure ==
    Called => /\ last.steps = AllSteps
              /\ last.exc \in {"none", "TestFailError"}

\* The key-path of kv is a missing mapping key or a sequence index out of
\* range in section s of the response
Unresolvable(call, s, kv) ==
    LET r == recurse_access_key(Section(call, s), kv.split_key)
    IN  /\ ~r.ok
        /\ r.err = "IndexError" =>
              \A i \in 1..Len(kv.split_key) : IsIndex(kv.split_key[i])

\* C2: every key-path of an expected block that does not resolve in the
\* section (missing mapping key, sequence index out of range) yields exactly
\* one "Key not present" error naming it, and the block is not aborted.
C2_OneErrorPerMissingKey ==
    \A s \in Sections : \A kv \in Compared(last, s) :
        Unresolvable(last, s, kv) =>
            /\ ErrorsSaying(last, "Key not present: %s", << KeyArg(kv.joined_key) >>) >= 1
            /\ ErrorsAt(last, "validate", s, kv.joined_key) = 1
            /\ last.exc \in {"none", "TestFailError"}

\* C3: an expected null whose key-path resolves collects no error, whatever
\* the actual value is.
C3_NullIsPresenceOnly ==
    \A s \in Sections : \A kv \in Compared(last, s) :
        (kv.expected_val = Null /\ Resolves(last, s, kv)) =>
            ErrorsAt(last, "validate", s, kv.joined_key) = 0

\* An expected null met an actual value that is not null, and the whole call
\* ran
C3_Witness ==
    /\ last.steps = AllSteps
    /\ \E kv \in Compared(last, "body") :
          /\ kv.expected_val = Null
          /\ Resolves(last, "body", kv)
          /\ Actual(last, "body", kv) = PyInt(7)

C5_SecondRunSameResult ==
    (last.n >= 2 /\ last.response = prev.response) =>
        /\ last.errors = prev.errors
        /\ last.exc = prev.exc
        /\ last.message = prev.message
        /\ last.ret = prev.ret

\* C6: every verify call starts with an empty error collection, and a call
\* whose response passes every check does not fail.
C6_FreshCollectorPerCall ==
    Called =>
        /\ last.errors_before = << >>
        /\ (NewErrors(last) = << >> /\ last.steps = AllSteps)
              => (last.exc = "none" /\ last.ret = PyMap(last.saved))

\* The save function of the call: it was called and returned `ret`
SaveExtReturned(call) ==
    /\ Entered(call, <<"save_ext", "">>)
    /\ InSave(call.expected_before, ExtKey)
    /\ ~ExtBehaviour(call.expected_before.save.v[ExtKey].v).raises

SaveExtRet(call) == ExtBehaviour(call.expected_before.save.v[ExtKey].v).ret

\* C7: when the save function returns normally, a mapping is merged into the
\* saved values, None collects no error and raises nothing, and any other
\* value is exactly one collected error; verify goes on to the validations.
C7_SaveExtReturnValue ==
    SaveExtReturned(last) =>
        /\ Entered(last, <<"validate", "body">>)
        /\ last.exc \in {"none", "TestFailError"}
        /\ IsDict(SaveExtRet(last)) =>
              /\ \A key \in DOMAIN SaveExtRet(last).v :
                    /\ key \in DOMAIN last.saved
                    /\ last.saved[key] = SaveExtRet(last).v[key]
              /\ ErrorsAt(last, "save_ext", "", << >>) = 0
        /\ SaveExtRet(last) = Null => ErrorsAt(last, "save_ext", "", << >>) = 0
        /\ (~IsDict(SaveExtRet(last)) /\ SaveExtRet(last) # Null) =>
              ErrorsAt(last, "save_ext", "", << >>) = 1

NoRedirectUrl == "Wanted to save %s, but there was no redirect url in response"
NoSection == "No %s in response (wanted to save %s)"
NotInResponse == "Wanted to save '%s' from '%s', but it did not exist in the response"

\* The response of the call has no Location header and the expected spec
\* asks to save from redirect_query_params
MissingRedirect(call) ==
    /\ call.n > 0
    /\ K("location") \notin DOMAIN call.response.headers.v
    /\ InSave(call.expected_before, K("redirect_query_params"))

\* Number of errors of the call about the redirect query parameters that
\* could not be saved
RedirectErrors(call) ==
    Cardinality({ i \in 1..Len(NewErrors(call)) :
        \/ NewErrors(call)[i].msg = NoRedirectUrl
        \/ /\ NewErrors(call)[i].msg = NoSection
           /\ NewErrors(call)[i].args[1] = PyStr("redirect_query_params") })

\* C8 as stated: with no Location header and a save from
\* redirect_query_params requested, exactly one error is collected for the
\* missing redirect source and nothing is saved from redirect_query_params.
C8_OneRedirectError ==
    MissingRedirect(last) =>
        /\ RedirectErrors(last) = 1
        /\ last.returned["redirect_query_params"] = EmptyDict

\* C8 as amended: exactly two errors are collected for the missing redirect
\* source, one by verify ("no redirect url in response") and one by
\* _save_value ("No redirect_query_params in response"), and nothing is saved
\* from redirect_query_params.
C8_TwoRedirectErrors ==
    MissingRedirect(last) =>
        /\ ErrorsSaying(last, NoRedirectUrl,
              << last.expected_before.save.v[K("redirect_query_params")] >>) = 1
        /\ ErrorsSaying(last, NoSection,
              << PyStr("redirect_query_params"),
                 last.expected_before.save.v[K("redirect_query_params")] >>) = 1
        /\ RedirectErrors(last) = 2
        /\ last.returned["redirect_query_params"] = EmptyDict

\* Scenario 3: only the save from redirect_query_params is expected and the
\* response has no Location header
C8_Witness ==
    /\ MissingRedirect(last)
    /\ DOMAIN last.expected_before.save.v = { K("redirect_query_params") }
    /\ last.steps = AllSteps
    /\ Len(NewErrors(last)) = 2

\* Section s is saved from by the call and is not empty
Saving(call, s) ==
    /\ Entered(call, <<"save", s>>)
    /\ InSave(call.expected_before, K(s))
    /\ Truthy(Section(call, s))

\* C9: in one _save_value call on a non-empty section, a save-name whose
\* key-path does not resolve is one collected error and is absent from the
\* returned mapping; every save-name whose key-path resolves is in the
\* returned mapping with the resolved value.
C9_SavesAreIndependent ==
    \A s \in Sections :
        Saving(last, s) =>
            /\ s \in DOMAIN last.returned
            /\ \A save_as \in DOMAIN last.expected_before.save.v[K(s)].v :
                  LET joined_key == last.expected_before.save.v[K(s)].v[save_as]
                      r == recurse_access_key(Section(last, s), split(joined_key))
                  IN  IF r.ok
                      THEN /\ save_as \in DOMAIN last.returned[s]
                           /\ last.returned[s][save_as] = r.val
                           /\ ErrorsAt(last, "save", s, save_as) = 0
                      ELSE /\ save_as \notin DOMAIN last.returned[s]
                           /\ ErrorsAt(last, "save", s, save_as) = 1
                           /\ ErrorsSaying(last, NotInResponse,
                                 << KeyArg(joined_key), PyStr(s) >>) >= 1

\* One save-name of the body does not resolve, two others do and are saved
C9_Witness ==
    /\ Saving(last, "body")
    /\ "body" \in DOMAIN last.returned
    /\ DOMAIN last.returned["body"] = { K("uid"), K("token") }
    /\ last.returned["body"][K("uid")] = PyInt(42)
    /\ ErrorsAt(last, "save", "body", K("bad")) = 1

ValidatorRaised(call) ==
    /\ Entered(call, <<"validate_function", "">>)
    /\ validate_function # Null
    /\ ExtBehaviour(validate_function.func).raises

SaveExtRaised(call) ==
    /\ Entered(call, <<"save_ext", "">>)
    /\ InSave(call.expected_before, ExtKey)
    /\ ExtBehaviour(call.expected_before.save.v[ExtKey].v).raises

C11_FailureIffErrorCollected ==
    Called =>
        /\ last.exc = "TestFailError" <=> NewErrors(last) # << >>
        /\ last.exc = "TestFailError" =>
              /\ last.message = FailMessage(name, _str_errors(NewErrors(last)))
              /\ last.ret = Absent
        /\ NewErrors(last) = << >> => last.ret = PyMap(last.saved)

\* The mapping the save function of the call returned ({} when there is no
\* save function or it raised)
SaveExtMap(call) ==
    IF SaveExtReturned(call) /\ IsDict(SaveExtRet(call))
    THEN SaveExtRet(call).v
    ELSE EmptyDict

\* C12: the saved values are the body saves, overwritten by the headers
\* saves, then by the redirect_query_params saves, then by the mapping the
\* save function returned: the latest source of a save-name wins.
C12_LaterSourceWins ==
    Entered(last, <<"validate", "body">>) =>
        last.saved = SaveExtMap(last)
                       @@ last.returned["redirect_query_params"]
                       @@ last.returned["headers"]
                       @@ last.returned["body"]

\* One save-name comes from the body, the headers, the redirect query
\* parameters and the save function; the value of the save function is kept
C12_Witness ==
    /\ Entered(last, <<"validate", "body">>)
    /\ K("token") \in DOMAIN last.returned["body"]
    /\ K("token") \in DOMAIN last.returned["headers"]
    /\ K("token") \in DOMAIN last.returned["redirect_query_params"]
    /\ last.returned["body"][K("token")] = PyInt(7)
    /\ K("token") \in DOMAIN SaveExtMap(last)
    /\ last.saved[K("token")] = PyStr("from_ext")

\* C13: a status code that differs from the expected one is exactly one
\* error: with the dump of the body for an actual code in 400..499, with the
\* two codes only for any other code; equal codes collect no such error.
C13_StatusCodeError ==
    Called =>
        LET actual == last.response.status_code
            wanted == last.expected_before.status_code
        IN  IF actual # wanted.v
            THEN /\ ErrorsAt(last, "status_code", "", << >>) = 1
                 /\ ErrorsOf(last, "Status code was %s, expected %s:\n%s")
                      + ErrorsOf(last, "Status code was %s, expected %s") = 1
                 /\ NewErrors(last)[1] =
                      IF 400 <= actual /\ actual < 500
                      THEN [msg |-> "Status code was %s, expected %s:\n%s",
                            args |-> << PyInt(actual), wanted,
                                        _indent_err_text(dumps(json(last.response))) >>]
                      ELSE [msg |-> "Status code was %s, expected %s",
                            args |-> << PyInt(actual), wanted >>]
            ELSE /\ ErrorsAt(last, "status_code", "", << >>) = 0
                 /\ ErrorsOf(last, "Status code was %s, expected %s:\n%s") = 0
                 /\ ErrorsOf(last, "Status code was %s, expected %s") = 0

\* A 503 was verified against 200 (codes only), then a 404 (with the body)
C13_Witness ==
    /\ last.n = 2
    /\ prev.response.status_code = 503
    /\ prev.expected_before.status_code = PyInt(200)
    /\ ErrorsOf(prev, "Status code was %s, expected %s") = 1
    /\ last.response.status_code = 404
    /\ last.response.body = BodyAlice
    /\ ErrorsSaying(last, "Status code was %s, expected %s:\n%s",
          << PyInt(404), PyInt(200), _indent_err_text(dumps(BodyAlice)) >>) = 1

\* Number of errors of the call that _validate_block appended for section s
BlockErrors(call, s) ==
    Cardinality({ i \in 1..Len(call.src) :
                    call.src[i].step = "validate" /\ call.src[i].section = s })

\* C14: when the section is absent (no decodable body) and the expected
\* block is not empty, exactly one error naming the whole expected block is
\* collected, and no error per key.
C14_AbsentSectionOneError ==
    \A s \in Sections :
        (/\ Entered(last, <<"validate", s>>)
         /\ Section(last, s) = Null
         /\ Triples(last, s) # << >>) =>
            /\ BlockErrors(last, s) = 1
            /\ ErrorsAt(last, "validate", s, << >>) = 1
            /\ ErrorsSaying(last, "expected %s in the %s, but there was no response body",
                  << expected[s], PyStr(s) >>) = 1

\* The body could not be decoded and three key-paths were expected in it
C14_Witness ==
    /\ Called
    /\ last.response.body = NotJson
    /\ Entered(last, <<"validate", "body">>)
    /\ Len(Triples(last, "body")) = 3
    /\ BlockErrors(last, "body") = 1
    /\ last.exc = "TestFailError"

\* The expected block of section s is absent, empty or made of the special
\* key only
Unconstrained(call, s) ==
    LET e0 == call.expected_before[s]
    IN  \/ e0 = Absent
        \/ ~Truthy(e0)
        \/ IsDict(e0) /\ DOMAIN e0.v \subseteq { ExtKey }

\* C15: an expected block that is absent, empty or holds nothing but "$ext"
\* collects no error for its section, whatever the section is.
C15_UnconstrainedBlockNoError ==
    \A s \in Sections :
        (Entered(last, <<"validate", s>>) /\ Unconstrained(last, s)) =>
            BlockErrors(last, s) = 0

\* The expected body holds only "$ext", the body could not be decoded, and
\* the call passed
C15_Witness ==
    /\ Called
    /\ last.expected_before.body = PyMap(ExtKey :> Ext("validate_ok"))
    /\ last.response.body = NotJson
    /\ last.steps = AllSteps
    /\ NewErrors(last) = << >>
    /\ last.exc = "none"

\* C16: after any sequence of verify calls every section of the expected
\* spec, the "$ext" entries included, is what the constructor left.
C16_ExpectedImmutable == expected = expected_at_init

\* C17: every call of _adderr appends exactly one message at the end of the
\* error list, leaves the earlier entries in place and does not raise.
C17_AdderrAppendsOne ==
    Called =>
        /\ errors = last.errors
        /\ Len(last.errors) = Len(last.errors_before) + last.adderr_calls
        /\ SubSeq(last.errors, 1, Len(last.errors_before)) = last.errors_before
        /\ Len(last.src) = last.adderr_calls

\* A second call appended two errors or more behind those of the first call
C17_Witness ==
    /\ last.n = 2
    /\ Len(last.errors_before) >= 2
    /\ last.adderr_calls >= 2
    /\ last.steps = AllSteps

\* The place of a step in verify (lines 95-153)
Rank(at) ==
    CASE at.step = "status_code" -> 1
      [] at.step = "validate_function" -> 2
      [] at.step = "redirect" -> 3
      [] at.step = "save" /\ at.section = "body" -> 4
      [] at.step = "save" /\ at.section = "headers" -> 5
      [] at.step = "save" /\ at.section = "redirect_query_params" -> 6
      [] at.step = "save_ext" -> 7
      [] at.step = "validate" /\ at.section = "body" -> 8
      [] at.step = "validate" /\ at.section = "headers" -> 9
      [] at.step = "validate" /\ at.section = "redirect_query_params" -> 10

\* The templates of the errors a step collects
Templates(at) ==
    CASE at.step = "status_code" ->
            { "Status code was %s, expected %s:\n%s",
              "Status code was %s, expected %s" }
      [] at.step = "validate_function" ->
            { "Error calling validate function '%s':\n%s" }
      [] at.step = "redirect" -> { NoRedirectUrl }
      [] at.step = "save" -> { NoSection, NotInResponse }
      [] at.step = "save_ext" -> { "Error calling save function '%s':\n%s" }
      [] at.step = "validate" ->
            { "expected %s in the %s, but there was no response body",
              "Key not present: %s", "Value mismatch: '%s' vs '%s'" }

\* C18: the errors one verify call collects are in the order of the steps
\* that produced them: status code, validator, missing redirect, saves from
\* body, headers and redirect_query_params, save function, validations of
\* body, headers and redirect_query_params.
C18_ErrorsInStepOrder ==
    Called =>
        /\ Len(last.src) = Len(NewErrors(last))
        /\ \A i \in 1..Len(last.src) :
              NewErrors(last)[i].msg \in Templates(last.src[i])
        /\ \A i, j \in 1..Len(last.src) :
              i < j => Rank(last.src[i]) <= Rank(last.src[j])

\* One call collected a status-code error, a save error and a validation
\* error
C18_Witness ==
    /\ last.steps = AllSteps
    /\ \E i, j, k \in 1..Len(last.src) :
          /\ last.src[i].step = "status_code"
          /\ last.src[j].step = "save"
          /\ last.src[k].step = "validate"
    /\ Cardinality({ Rank(last.src[i]) : i \in 1..Len(last.src) }) >= 4

\* save_as is a save-name declared under save.<s> whose key-path resolves in
\* section s of the response of the call
DeclaredAndResolved(call, s, save_as) ==
    /\ InSave(call.expected_before, K(s))
    /\ Truthy(Section(call, s))
    /\ save_as \in DOMAIN call.expected_before.save.v[K(s)].v
    /\ recurse_access_key(Section(call, s),
           split(call.expected_before.save.v[K(s)].v[save_as])).ok

\* C19: every key of the saved values is a save-name declared under
\* save.body, save.headers or save.redirect_query_params whose key-path
\* resolved in its section, or a key of the mapping the save function
\* returned.
C19_SavedKeysAreDeclared ==
    Called =>
        \A save_as \in DOMAIN last.saved :
            \/ \E s \in Sections : DeclaredAndResolved(last, s, save_as)
            \/ save_as \in DOMAIN SaveExtMap(last)

\* Two save-names of the body were saved, a third one whose key-path does
\* not resolve was left out
C19_Witness ==
    /\ Saving(last, "body")
    /\ last.steps = AllSteps
    /\ DOMAIN last.saved = { K("uid"), K("token") }
    /\ K("bad") \in DOMAIN last.expected_before.save.v[K("body")].v
    /\ ~DeclaredAndResolved(last, "body", K("bad"))

\* Number of times the call invoked the validator (the save function, which
\* is another function, is recorded in call.invoked too)
ValidatorCalls(call) ==
    Cardinality({ i \in 1..Len(call.invoked) :
                    call.invoked[i] = validate_function.func })

\* C20: when the expected body held a "$ext" validator reference at
\* construction, every verify call invokes that validator exactly once, the
\* calls after _validate_block removed "$ext" from the expected body
\* included.
C20_ValidatorOncePerCall ==
    (Called /\ HasExt(expected_at_init.body)) =>
        /\ validate_function =
              get_wrapped_response_function(expected_at_init.body.v[ExtKey])
        /\ ValidatorCalls(last) = 1
        /\ last.invoked[1] = validate_function.func
        /\ last.n >= 2 => ValidatorCalls(prev) = 1

\* The first call removed "$ext" from the expected body and the second call
\* invoked the validator all the same
C20_Witness ==
    /\ last.n = 2
    /\ HasExt(expected_at_init.body)
    /\ ~HasExt(last.expected_before.body)
    /\ ValidatorCalls(prev) = 1
    /\ ValidatorCalls(last) = 1
    /\ last.steps = AllSteps

====
